---- MODULE Spec2Model ----
(***************************************************************************)
(* A model of the grocery assistant's components:                           *)
(*   - backend/maps/address.py  find_nearby_places (the place resolver)   *)
(*   - backend/rag_tools.py     GroceryPriceComparer (the comparator)     *)
(*   - backend/agent_ai.py      the find_nearby_places agent tool         *)
(*   - backend/analytics.py     StatsService (the thread analytics)       *)
(*   - backend/rag.py           RAGSystem.chat / chat_async               *)
(* Distances are fixed-point numbers (Scale units per metre); prices are   *)
(* integers (cents); similarity scores are hundredths.                     *)
(***************************************************************************)
EXTENDS Integers, Sequences, FiniteSets, TLC

\* ------------------------------------------------------------------ bounds
\* Largest max_pages, min_unique and max_per_brand argument of a call.
MaxPages == 2
MaxMinUnique == 2
MaxPerBrand == 2
\* Place identifiers are 1..NumIds (0 stands for a missing or empty id).
NumIds == 4
\* Distance units per metre (the resolution of the fixed-point distance).
Scale == 2
\* Most places on one response page.
MaxPageLen == 2
\* Most hits of one search, and the largest price (in cents) of a hit.
MaxHits == 3
MaxPrice == 2
\* The largest top_k the agent passes to its tool.
MaxTopK == 3
\* Most user messages of a thread, and the latest time of the clock.
MaxUserMessages == 2
MaxClock == 3
\* Most chats of a run, and most chats under way at a time.
MaxChats == 3
MaxInFlight == 2

\* ------------------------------------------------------- values and helpers
NoId == 0
\* A missing or empty next-page token (`not page_token`), and a token.
NoToken == ""
NextToken == "token"
NoLoc == <<>>
\* The query point (lat, lng) of the call; every place lies on its meridian.
QueryLat == 0
QueryLng == 0

Abs(x) == IF x < 0 THEN 0 - x ELSE x

Range(s) == {s[i] : i \in 1..Len(s)}

\* _haversine_m for two points of one meridian: dlon = 0, so a = sin(dlat/2)^2
\* and R * 2 * asin(sqrt(a)) = R * |dlat|, the arc between the two latitudes.
\* Latitudes are given in distance units of arc, so the result is |dlat|.
haversine_m(lat1, lon1, lat2, lon2) == Abs(lat2 - lat1)

\* int(dist): truncation of a non-negative fixed-point distance to metres.
IntMetres(dist) == dist \div Scale

\* ----------------------------------------------------------- _brand_key
\* Names are sequences of characters, each written as a string; "I'" is the
\* letter I with an acute accent, "s^" s with a caron, "l/" l with a stroke.
NameLidl == <<"L", "i", "d", "l">>
NameLidlCity == <<" ", "L", "I'", "D", "L", "-", "x">>
NameStar == <<"*">>

\* unicodedata.normalize("NFKD", n).encode("ascii", "ignore"): an accented
\* letter keeps its base letter, any other non-ASCII character is dropped.
AsciiFold(ch) ==
    CASE ch = "I'" -> <<"I">>
      [] ch = "s^" -> <<"s">>
      [] ch = "l/" -> <<>>
      [] OTHER -> <<ch>>

RECURSIVE AsciiOnly(_)
AsciiOnly(n) == IF n = <<>> THEN <<>> ELSE AsciiFold(Head(n)) \o AsciiOnly(Tail(n))

IsAlnum(ch) == ch \in {"L", "I", "D", "l", "i", "d", "x", "s", "N", "A", "n", "a"}
IsSpace(ch) == ch = " "

ToLower(ch) ==
    CASE ch = "L" -> "l"
      [] ch = "I" -> "i"
      [] ch = "D" -> "d"
      [] ch = "N" -> "n"
      [] ch = "A" -> "a"
      [] OTHER -> ch

\* re.sub(r"[^a-zA-Z0-9\s]", " ", s).lower()
RECURSIVE CleanChars(_)
CleanChars(s) ==
    IF s = <<>> THEN <<>>
    ELSE <<IF IsAlnum(Head(s)) \/ IsSpace(Head(s)) THEN ToLower(Head(s)) ELSE " ">>
         \o CleanChars(Tail(s))

RECURSIVE LowerAll(_)
LowerAll(s) == IF s = <<>> THEN <<>> ELSE <<ToLower(Head(s))>> \o LowerAll(Tail(s))

\* re.sub(r"\s+", " ", s): runs of whitespace become one space.
RECURSIVE CollapseSpaces(_)
CollapseSpaces(s) ==
    IF Len(s) < 2 THEN s
    ELSE IF IsSpace(s[1]) /\ IsSpace(s[2]) THEN CollapseSpaces(Tail(s))
    ELSE <<Head(s)>> \o CollapseSpaces(Tail(s))

RECURSIVE StripLeft(_)
StripLeft(s) == IF s # <<>> /\ IsSpace(Head(s)) THEN StripLeft(Tail(s)) ELSE s

RECURSIVE StripRight(_)
StripRight(s) ==
    IF s # <<>> /\ IsSpace(s[Len(s)]) THEN StripRight(SubSeq(s, 1, Len(s) - 1)) ELSE s

Strip(s) == StripRight(StripLeft(s))

\* s.split(" ")[0]
RECURSIVE FirstToken(_)
FirstToken(s) ==
    IF s = <<>> \/ IsSpace(Head(s)) THEN <<>> ELSE <<Head(s)>> \o FirstToken(Tail(s))

brand_key(n) ==
    LET cleaned == Strip(CollapseSpaces(CleanChars(AsciiOnly(n))))
    IN  IF cleaned # <<>> THEN FirstToken(cleaned) ELSE LowerAll(Strip(n))

\* ------------------------------------------------- the places API's answers
\* The places around the query point: place i has a fixed displayName and a
\* fixed latitude (in distance units of arc from the query point). Places 1
\* and 2 share name and coordinates; places 1, 2 and 3 share a brand; the
\* distances of places 1..4 are 3, 3, 2, 1 units.
CatalogNames == <<NameLidl, NameLidl, NameLidlCity, NameStar>>
CatalogLats == <<3, 3, 0 - 2, 1>>
PlaceName(i) == CatalogNames[((i - 1) % 4) + 1]
PlaceLat(i) == CatalogLats[((i - 1) % 4) + 1] + 4 * ((i - 1) \div 4)

\* One entry of a response page: its id, its displayName text, its location.
\* The API may leave out an entry's id or its location.
PlaceEntries ==
    {[id |-> i, name |-> PlaceName(i), loc |-> <<PlaceLat(i), QueryLng>>] : i \in 1..NumIds}
    \cup {[id |-> i, name |-> PlaceName(i), loc |-> NoLoc] : i \in 1..NumIds}
    \cup {[id |-> NoId, name |-> PlaceName(1), loc |-> <<PlaceLat(1), QueryLng>>]}
Tokens == {NoToken, NextToken}

\* fnp: the state of a call of find_nearby_places.
\* cmp: the state of a call of GroceryPriceComparer.compare_prices.
\* lst: the state of a call of GroceryPriceComparer.get_best_store_for_list.
\* two: the states of two calls of find_nearby_places and of two calls of
\*      compare_prices that run at the same time.
\* tool: one run of the find_nearby_places agent tool and the thread-data files.
\* ana: the analytics service: thread files, stored analytics records, clock.
\* chat: the calls of RAGSystem.chat / chat_async and the stored threads.
VARIABLES fnp, cmp, lst, two, tool, ana, chat

vars == <<fnp, cmp, lst, two, tool, ana, chat>>

\* ------------------------------------------------------ find_nearby_places
\* The state of one call: its arguments, its locals, its position (pc: idle,
\* loop = at the while test, page = inside the for loop over a response, sort
\* = past the loop, returned, raised) and the value it returned (ret).
\* History of the call, read by the properties only: the number of page
\* requests sent (requests), the token carried by the latest (sent), how the
\* latest was answered (last_status), the position in the current response
\* (n), whether an entry was skipped for an identifier already seen
\* (repeated), and `results` as it was when the loop ended (collected).
FnpIdle ==
    [pc |-> "idle", min_unique |-> 0, max_pages |-> 0, max_per_brand |-> 0,
     seen_place_ids |-> {}, results |-> <<>>, page_token |-> NoToken,
     pages |-> 0, n |-> 0, requests |-> 0, sent |-> NoToken,
     last_status |-> "none", repeated |-> FALSE, bare |-> {}, late |-> FALSE,
     collected |-> <<>>, ret |-> <<>>]

\* Entry of the function: the API key check and the initial locals.
FnpEnter(c, key_set, mu, mp, mpb) ==
    [c EXCEPT !.pc = IF key_set THEN "loop" ELSE "raised",
              !.min_unique = mu, !.max_pages = mp, !.max_per_brand = mpb]

\* A loop test that allows one page too many.
LoopCond_OffByOne(c) == c.pages <= c.max_pages /\ Len(c.results) < c.min_unique

\* while pages < max_pages and len(results) < min_unique
LoopCond(c) == c.pages < c.max_pages /\ Len(c.results) < c.min_unique

\* body["pageToken"] = page_token if page_token
RequestToken(c) == c.page_token

\* requests.post(...) answered with a success status.
PostOk(c) ==
    [c EXCEPT !.pc = "page", !.n = 0, !.requests = @ + 1, !.sent = RequestToken(c),
              !.last_status = "ok"]

\* A failed request whose error is swallowed: the loop is left and the places
\* of the earlier pages are returned.
PostRaise_Swallowed(c) ==
    [c EXCEPT !.pc = "sort", !.requests = @ + 1, !.sent = RequestToken(c),
              !.last_status = "error"]

\* requests.post(...) or raise_for_status() raising: nothing catches it.
PostRaise(c) ==
    [c EXCEPT !.pc = "raised", !.requests = @ + 1, !.sent = RequestToken(c),
              !.last_status = "error"]

\* A skip test that forgets the seen-identifier set.
SkipPlace_NoSeenCheck(c, place) == place.id = NoId

\* if not pid or pid in seen_place_ids: continue
SkipPlace(c, place) == place.id = NoId \/ place.id \in c.seen_place_ids

\* The identifier recorded only once the place is known to have coordinates.
SeenAfter_OnlyLocated(c, place) ==
    IF place.loc = NoLoc THEN c.seen_place_ids ELSE c.seen_place_ids \cup {place.id}

\* seen_place_ids.add(pid), before the coordinates are looked at.
SeenAfter(c, place) == c.seen_place_ids \cup {place.id}

\* History of the call: bare is the identifiers that came without coordinates
\* before any of their places was collected; late tells that such an
\* identifier came again with coordinates.
BareAfter(c, place) ==
    IF /\ place.id # NoId
       /\ place.loc = NoLoc
       /\ \A i \in 1..Len(c.results) : c.results[i][5] # place.id
    THEN c.bare \cup {place.id} ELSE c.bare
LateAfter(c, place) == c.late \/ (place.id \in c.bare /\ place.loc # NoLoc)

\* One iteration of `for place in data.get("places", [])`.
HandlePlace(c, place) ==
    IF SkipPlace(c, place)
    THEN [c EXCEPT !.n = @ + 1, !.repeated = @ \/ place.id \in c.seen_place_ids,
                   !.bare = BareAfter(c, place), !.late = LateAfter(c, place)]
    ELSE IF place.loc = NoLoc
    THEN [c EXCEPT !.n = @ + 1, !.seen_place_ids = SeenAfter(c, place),
                   !.bare = BareAfter(c, place), !.late = LateAfter(c, place)]
    ELSE LET plat == place.loc[1]
             plng == place.loc[2]
             dist_m == haversine_m(QueryLat, QueryLng, plat, plng)
         IN  [c EXCEPT !.n = @ + 1,
                       !.seen_place_ids = SeenAfter(c, place),
                       !.results = Append(@, <<dist_m, place.name, plat, plng, place.id>>),
                       !.bare = BareAfter(c, place), !.late = LateAfter(c, place)]

\* A page end without the break on a missing token.
AfterPage_NoBreak(token) == "loop"

\* page_token = data.get("nextPageToken"); pages += 1; if not page_token: break
AfterPage(token) == IF token = NoToken THEN "sort" ELSE "loop"

EndPage(c, token) ==
    [c EXCEPT !.page_token = token, !.pages = @ + 1, !.pc = AfterPage(token)]

\* An insertion that sorts the farthest first.
RECURSIVE InsertByDist_Farthest(_, _)
InsertByDist_Farthest(sorted, item) ==
    IF sorted = <<>> THEN <<item>>
    ELSE IF sorted[Len(sorted)][1] >= item[1] THEN Append(sorted, item)
    ELSE Append(InsertByDist_Farthest(SubSeq(sorted, 1, Len(sorted) - 1), item),
                sorted[Len(sorted)])

\* results.sort(key=lambda x: x[0]): a stable sort by distance.
RECURSIVE InsertByDist(_, _)
InsertByDist(sorted, item) ==
    IF sorted = <<>> THEN <<item>>
    ELSE IF sorted[Len(sorted)][1] <= item[1] THEN Append(sorted, item)
    ELSE Append(InsertByDist(SubSeq(sorted, 1, Len(sorted) - 1), item), sorted[Len(sorted)])

\* The sort left out.
SortByDist_Unsorted(rs) == rs

RECURSIVE SortByDist(_)
SortByDist(rs) ==
    IF rs = <<>> THEN <<>>
    ELSE InsertByDist(SortByDist(SubSeq(rs, 1, Len(rs) - 1)), rs[Len(rs)])

\* brand_counts.get(bk, 0) after the items of `kept` were counted.
BrandCount(kept, bk) == Cardinality({i \in 1..Len(kept) : brand_key(kept[i][2]) = bk})

\* A cap test that lets one place too many through.
OverCap_OffByOne(cnt, max_per_brand) == cnt > max_per_brand

\* if cnt >= max_per_brand: continue
OverCap(cnt, max_per_brand) == cnt >= max_per_brand

\* The loop over the sorted results that fills `filtered`.
RECURSIVE CapLoop(_, _, _)
CapLoop(rs, filtered, max_per_brand) ==
    IF rs = <<>> THEN filtered
    ELSE LET item == Head(rs)
             cnt == BrandCount(filtered, brand_key(item[2]))
         IN  CapLoop(Tail(rs),
                     IF OverCap(cnt, max_per_brand) THEN filtered ELSE Append(filtered, item),
                     max_per_brand)

\* A cap that is applied for max_per_brand = 0 too.
CapEnabled_AlsoZero(max_per_brand) == max_per_brand >= 0

\* if max_per_brand > 0
CapEnabled(max_per_brand) == max_per_brand > 0

BrandCap(rs, max_per_brand) ==
    IF CapEnabled(max_per_brand) THEN CapLoop(rs, <<>>, max_per_brand) ELSE rs

\* The returned list of dicts.
ToDicts(rs) ==
    [i \in 1..Len(rs) |->
        [distance_m |-> IntMetres(rs[i][1]), name |-> rs[i][2], lat |-> rs[i][3],
         lng |-> rs[i][4], place_id |-> rs[i][5]]]

\* Lines 103-128: sort, cap, return.
FnpReturn(c) ==
    LET sorted == SortByDist(c.results)
        capped == BrandCap(sorted, c.max_per_brand)
    IN  [c EXCEPT !.pc = "returned", !.collected = c.results, !.results = capped,
                  !.ret = ToDicts(capped)]

\* ------------------------------------------------- GroceryPriceComparer
\* GroceryPriceComparer.__init__'s default min_similarity_score, in hundredths.
min_similarity_score == 60

\* A search hit is a dict: a function whose domain is the set of keys it has.
\* "score" is always there; "text", "source", "price", "price_original",
\* "amount", "unit", "description" and "category" may be missing. A price
\* value is [num |-> n] (a number of cents, or text that float() accepts) or
\* [str |-> s] (text that float() rejects).
Get(d, k, default) == IF k \in DOMAIN d THEN d[k] ELSE default

\* float(v) raises ValueError.
FloatRaises(v) == "num" \notin DOMAIN v
FloatOf(v) == v.num

\* The truth value of a price value: a non-zero number or a non-empty text.
Truthy(v) == IF "num" \in DOMAIN v THEN v.num # 0 ELSE v.str # ""

\* Optional[float]: None is <<>>, a number x is <<x>>.
None == <<>>

\* The try block of search_groceries: (price, price_original) of a hit.
\* A missing price is float(0); a missing or false price_original is None;
\* a ValueError from either float() sets price to 0.0 and price_original to
\* None.
ParsePrices(result) ==
    LET praw == Get(result, "price", [num |-> 0])
        has_po == "price_original" \in DOMAIN result /\ Truthy(result["price_original"])
    IN  IF FloatRaises(praw) THEN <<0, None>>
        ELSE IF ~has_po THEN <<FloatOf(praw), None>>
        ELSE IF FloatRaises(result["price_original"]) THEN <<0, None>>
        ELSE <<FloatOf(praw), <<FloatOf(result["price_original"])>> >>

\* An item whose store is empty when the hit names no source.
MakeItem_EmptyStore(result) ==
    LET prices == ParsePrices(result)
    IN  [name |-> Get(result, "text", ""),
         store |-> Get(result, "source", ""),
         price |-> prices[1],
         price_original |-> prices[2],
         amount |-> Get(result, "amount", ""),
         unit |-> Get(result, "unit", ""),
         description |-> Get(result, "description", ""),
         category |-> Get(result, "category", ""),
         similarity_score |-> result["score"]]

\* GroceryItem(...) built from a hit.
MakeItem(result) ==
    LET prices == ParsePrices(result)
    IN  [name |-> Get(result, "text", ""),
         store |-> Get(result, "source", "unknown"),
         price |-> prices[1],
         price_original |-> prices[2],
         amount |-> Get(result, "amount", ""),
         unit |-> Get(result, "unit", ""),
         description |-> Get(result, "description", ""),
         category |-> Get(result, "category", ""),
         similarity_score |-> result["score"]]

\* if result['score'] < self.min_similarity: continue
TooDissimilar(result, min_similarity) == result["score"] < min_similarity

\* search_groceries: the items of the hits that pass the similarity test, in
\* the order of the hits.
RECURSIVE search_groceries(_, _)
search_groceries(results, min_similarity) ==
    IF results = <<>> THEN <<>>
    ELSE IF TooDissimilar(Head(results), min_similarity)
    THEN search_groceries(Tail(results), min_similarity)
    ELSE <<MakeItem(Head(results))>> \o search_groceries(Tail(results), min_similarity)

\* The keys of items_by_store in insertion order: stores by first occurrence.
RECURSIVE StoreOrder(_, _)
StoreOrder(items, order) ==
    IF items = <<>> THEN order
    ELSE StoreOrder(Tail(items),
                    IF \E i \in 1..Len(order) : order[i] = Head(items).store
                    THEN order ELSE Append(order, Head(items).store))

RECURSIVE ItemsOfStore(_, _)
ItemsOfStore(items, store) ==
    IF items = <<>> THEN <<>>
    ELSE IF Head(items).store = store
    THEN <<Head(items)>> \o ItemsOfStore(Tail(items), store)
    ELSE ItemsOfStore(Tail(items), store)

\* items_by_store[item.store].append(item) for every item.
GroupByStore(items) ==
    [store \in Range(StoreOrder(items, <<>>)) |-> ItemsOfStore(items, store)]

\* The price of the store's first item instead of its cheapest.
MinPrice_First(store_items) == store_items[1].price

\* min(store_items, key=lambda x: x.price).price
RECURSIVE MinPrice(_)
MinPrice(store_items) ==
    IF Len(store_items) = 1 THEN store_items[1].price
    ELSE LET rest == MinPrice(Tail(store_items))
         IN  IF store_items[1].price <= rest THEN store_items[1].price ELSE rest

\* store_prices: every store's cheapest price.
StorePrices(items_by_store) ==
    [store \in DOMAIN items_by_store |-> MinPrice(items_by_store[store])]

\* The first store instead of the cheapest.
CheapestStore_First(order, store_prices) == order[1]

\* min(store_prices, key=store_prices.get): the first store, in insertion
\* order, with the least price.
RECURSIVE CheapestStore(_, _)
CheapestStore(order, store_prices) ==
    IF Len(order) = 1 THEN order[1]
    ELSE LET rest == CheapestStore(Tail(order), store_prices)
         IN  IF store_prices[order[1]] <= store_prices[rest] THEN order[1] ELSE rest

\* The percentage cut off after two decimals instead of rounded.
RoundedPercent_Floor(num, den) == (num * 10000) \div den

\* round(x, 2) of x = (num / den) * 100, as a number of hundredths; a tie goes
\* to the even neighbour. num >= 0, den > 0.
RoundedPercent(num, den) ==
    LET q == (num * 10000) \div den
        r == (num * 10000) % den
    IN  IF 2 * r < den THEN q
        ELSE IF 2 * r > den THEN q + 1
        ELSE IF q % 2 = 0 THEN q ELSE q + 1

\* ((price - cheapest_price) / cheapest_price) * 100 raises ZeroDivisionError.
DiffRaises(price, cheapest_price) == price > 0 /\ cheapest_price = 0

\* The price as a percentage of the cheapest instead of the difference.
DiffPercent_Ratio(price, cheapest_price) ==
    IF price > 0 THEN RoundedPercent(price, cheapest_price) ELSE 0

\* One store's entry of price_differences, in hundredths of a percent.
DiffPercent(price, cheapest_price) ==
    IF price > 0 THEN RoundedPercent(price - cheapest_price, cheapest_price) ELSE 0

\* GroceryPriceComparer.__init__'s default price_threshold_percent, in
\* hundredths of a percent, and the thresholds a caller supplies.
price_threshold_percent == 500
Thresholds == {price_threshold_percent, 2 * price_threshold_percent}

\* A store at exactly the threshold counted as more expensive.
StoreStatus_Strict(diff, price_threshold) ==
    IF diff < price_threshold THEN "similar" ELSE "expensive"

\* if diff <= self.price_threshold: "Similar price" else "More expensive"
StoreStatus(diff, price_threshold) ==
    IF diff <= price_threshold THEN "similar" ELSE "expensive"

\* The lines of the other stores, in the order of store_prices: the values
\* the template prints for the store.
RECURSIVE OtherStores(_, _, _, _, _, _)
OtherStores(order, cheapest_store, cheapest_price, store_prices, price_differences, price_threshold) ==
    IF order = <<>> THEN <<>>
    ELSE LET store == Head(order)
             rest == OtherStores(Tail(order), cheapest_store, cheapest_price,
                                 store_prices, price_differences, price_threshold)
         IN  IF store = cheapest_store THEN rest
             ELSE <<[store |-> store,
                     price |-> store_prices[store],
                     status |-> StoreStatus(price_differences[store], price_threshold),
                     diff_amount |-> store_prices[store] - cheapest_price,
                     diff |-> price_differences[store]]>> \o rest

MaxOf(S) == CHOOSE x \in S : \A y \in S : y <= x

\* _generate_recommendation: the text as the values filled into its template.
\* order is the insertion order of store_prices.
generate_recommendation(query, cheapest_store, cheapest_price, order, store_prices, price_differences, price_threshold) ==
    LET others == DOMAIN store_prices \ {cheapest_store}
        significant_savings ==
            \E store \in others : price_differences[store] > price_threshold
        max_savings ==
            IF others = {} THEN 0
            ELSE MaxOf({store_prices[store] - cheapest_price : store \in others})
    IN  [query |-> query,
         cheapest_store |-> cheapest_store,
         cheapest_price |-> cheapest_price,
         other_stores |-> OtherStores(order, cheapest_store, cheapest_price,
                                      store_prices, price_differences, price_threshold),
         final |-> IF significant_savings
                   THEN [kind |-> "save", store |-> cheapest_store,
                         max_savings |-> max_savings]
                   ELSE [kind |-> "similar", price_threshold |-> price_threshold]]

\* The state of one call: the hits the search collaborator returns (results),
\* the locals, and the outcome: pc is "idle", "none" (returned None),
\* "returned" (returned a PriceComparison) or "raised".
CmpIdle(results) ==
    [pc |-> "idle", results |-> results, items |-> <<>>, order |-> <<>>,
     items_by_store |-> <<>>, store_prices |-> <<>>, cheapest_store |-> "",
     cheapest_price |-> 0, price_differences |-> <<>>,
     query |-> "milk", price_threshold |-> price_threshold_percent,
     recommendation |-> <<>>]

\* compare_prices, lines 119-166.
compare_prices(c) ==
    LET items == search_groceries(c.results, min_similarity_score)
        order == StoreOrder(items, <<>>)
        items_by_store == GroupByStore(items)
        store_prices == StorePrices(items_by_store)
        cheapest_store == CheapestStore(order, store_prices)
        cheapest_price == store_prices[cheapest_store]
        price_differences ==
            [store \in DOMAIN store_prices |->
                DiffPercent(store_prices[store], cheapest_price)]
    IN  IF items = <<>> THEN [c EXCEPT !.pc = "none"]
        ELSE IF \E store \in DOMAIN store_prices :
                    DiffRaises(store_prices[store], cheapest_price)
        THEN [c EXCEPT !.pc = "raised", !.items = items, !.order = order,
                       !.items_by_store = items_by_store, !.store_prices = store_prices,
                       !.cheapest_store = cheapest_store, !.cheapest_price = cheapest_price]
        ELSE [c EXCEPT !.pc = "returned", !.items = items, !.order = order,
                       !.items_by_store = items_by_store, !.store_prices = store_prices,
                       !.cheapest_store = cheapest_store, !.cheapest_price = cheapest_price,
                       !.price_differences = price_differences,
                       !.recommendation =
                           generate_recommendation(c.query, cheapest_store,
                               cheapest_price, order, store_prices,
                               price_differences, c.price_threshold)]

\* The hits a search may return. Regular hits reach the similarity threshold
\* and carry a store and a numeric price; low hits are just below the
\* threshold, at the least price; odd hits miss a key or carry text that is
\* no number.
RegularHits ==
    {[score |-> min_similarity_score, text |-> "milk", source |-> st, price |-> [num |-> p]] :
        st \in {"tesco", "lidl"}, p \in 0..MaxPrice}
LowHits ==
    {[score |-> min_similarity_score - 1, text |-> "milk", source |-> st, price |-> [num |-> 0]] :
        st \in {"tesco", "lidl"}}
OddHits ==
    {[score |-> min_similarity_score, text |-> "milk", price |-> [num |-> 1]],
     [score |-> min_similarity_score, source |-> "tesco"],
     [score |-> min_similarity_score, source |-> "tesco", price |-> [str |-> "n/a"]],
     [score |-> min_similarity_score, source |-> "lidl", price |-> [num |-> 2],
      price_original |-> [str |-> "n/a"], unit |-> "l"],
     [score |-> min_similarity_score, source |-> "tesco", price |-> [num |-> 1],
      price_original |-> [num |-> 2], amount |-> "1"]}
\* Hits well above the threshold with prices of a euro and more: 1.00 and
\* 1.20 at one store, 1.10 and 1.15 at the other.
ScenarioScore == min_similarity_score + 30
ScenarioHit(st, p) ==
    [score |-> ScenarioScore, text |-> "milk", source |-> st, price |-> [num |-> p]]
ScenarioHits ==
    {ScenarioHit("tesco", 100), ScenarioHit("tesco", 120),
     ScenarioHit("lidl", 110), ScenarioHit("lidl", 115)}
Hits == RegularHits \cup LowHits \cup OddHits \cup ScenarioHits

RECURSIVE SeqsUpTo(_, _)
SeqsUpTo(S, n) ==
    IF n = 0 THEN {<<>>}
    ELSE LET shorter == SeqsUpTo(S, n - 1)
         IN  shorter \cup {Append(q, x) : q \in {t \in shorter : Len(t) = n - 1}, x \in S}

\* ----------------------------------------------------------- shopping lists
\* The most queries in a shopping list, and the queries there are.
MaxItems == 3
Queries == {"milk", "bread", "eggs"}

Hit(sc, st, p) == [score |-> sc, text |-> "x", source |-> st, price |-> [num |-> p]]

\* What the search collaborator may return for a query: only a hit below the
\* similarity threshold; one store; two stores; one store whose most similar
\* item is not its cheapest; two stores at price 0; a store at price 0 and a
\* dearer one; the other store alone.
HitLists ==
    {<<Hit(min_similarity_score - 1, "tesco", 0)>>,
     <<Hit(min_similarity_score, "tesco", 1)>>,
     <<Hit(min_similarity_score, "tesco", 2), Hit(min_similarity_score, "lidl", 1)>>,
     <<Hit(min_similarity_score, "tesco", 1), Hit(ScenarioScore, "tesco", 2)>>,
     <<Hit(min_similarity_score, "tesco", 0), Hit(min_similarity_score, "lidl", 0)>>,
     <<Hit(min_similarity_score, "tesco", 0), Hit(min_similarity_score, "lidl", 1)>>,
     <<Hit(min_similarity_score, "lidl", 2)>>}

\* The PriceComparison a call of compare_prices returns.
PriceComparison(c) ==
    [query |-> c.query, cheapest_store |-> c.cheapest_store,
     cheapest_price |-> c.cheapest_price, items_by_store |-> c.items_by_store,
     price_differences |-> c.price_differences, recommendation |-> c.recommendation]

\* self.compare_prices(item, ...) against the collaborator's hits for item.
ComparePricesOf(item, hitsOf) ==
    compare_prices([CmpIdle(hitsOf[item]) EXCEPT !.query = item])

\* if comparison:
KeepComparison(comparison) == comparison.pc = "returned"

\* compare_shopping_list's loop. acc holds raised (a compare_prices call
\* raised), calls (the queries compare_prices was called with, in order),
\* results (the dict) and order (the insertion order of its keys).
RECURSIVE ShoppingLoop(_, _, _)
ShoppingLoop(items, hitsOf, acc) ==
    IF items = <<>> \/ acc.raised THEN acc
    ELSE LET item == Head(items)
             comparison == ComparePricesOf(item, hitsOf)
             called == Append(acc.calls, item)
         IN  ShoppingLoop(Tail(items), hitsOf,
                 IF comparison.pc = "raised"
                 THEN [acc EXCEPT !.raised = TRUE, !.calls = called]
                 ELSE IF ~KeepComparison(comparison)
                 THEN [acc EXCEPT !.calls = called]
                 ELSE [raised |-> FALSE, calls |-> called,
                       order |-> IF item \in Range(acc.order) THEN acc.order
                                 ELSE Append(acc.order, item),
                       results |-> [q \in DOMAIN acc.results \cup {item} |->
                                       IF q = item THEN PriceComparison(comparison)
                                       ELSE acc.results[q]]])

compare_shopping_list(items, hitsOf) ==
    ShoppingLoop(items, hitsOf,
                 [raised |-> FALSE, calls |-> <<>>, order |-> <<>>, results |-> <<>>])

\* The cheapest of the store's items instead of the most similar.
RECURSIVE BestMatch_Cheapest(_)
BestMatch_Cheapest(store_items) ==
    IF Len(store_items) = 1 THEN store_items[1]
    ELSE LET rest == BestMatch_Cheapest(Tail(store_items))
         IN  IF store_items[1].price <= rest.price THEN store_items[1] ELSE rest

\* max(store_items, key=lambda x: x.similarity_score): the first of the most
\* similar items.
RECURSIVE BestMatch(_)
BestMatch(store_items) ==
    IF Len(store_items) = 1 THEN store_items[1]
    ELSE LET rest == BestMatch(Tail(store_items))
         IN  IF store_items[1].similarity_score >= rest.similarity_score
             THEN store_items[1] ELSE rest

\* comparison.items_by_store.get(store, []) is not empty.
Covers(comparison, store) == store \in DOMAIN comparison.items_by_store

\* store_totals[store] and store_item_counts[store] after the loop over the
\* comparisons, in the order of their keys.
RECURSIVE StoreTotal(_, _, _)
StoreTotal(order, comparisons, store) ==
    IF order = <<>> THEN 0
    ELSE (IF Covers(comparisons[Head(order)], store)
          THEN BestMatch(comparisons[Head(order)].items_by_store[store]).price
          ELSE 0) + StoreTotal(Tail(order), comparisons, store)

RECURSIVE StoreCount(_, _, _)
StoreCount(order, comparisons, store) ==
    IF order = <<>> THEN 0
    ELSE (IF Covers(comparisons[Head(order)], store) THEN 1 ELSE 0)
         + StoreCount(Tail(order), comparisons, store)

\* The insertion order of store_totals: for every comparison, the stores in
\* the iteration order of the set all_stores.
RECURSIVE TotalsOrder(_, _, _, _)
TotalsOrder(order, all_stores, comparisons, acc) ==
    IF order = <<>> THEN acc
    ELSE TotalsOrder(Tail(order), all_stores, comparisons,
             acc \o SelectSeq(all_stores,
                        LAMBDA store : /\ Covers(comparisons[Head(order)], store)
                                       /\ store \notin Range(acc)))

\* item_details: per comparison, what every store offers for the query.
ItemDetails(order, all_stores, comparisons) ==
    [i \in 1..Len(order) |->
        [query |-> order[i],
         prices_by_store |->
            [store \in Range(all_stores) |->
                IF Covers(comparisons[order[i]], store)
                THEN LET best_match == BestMatch(comparisons[order[i]].items_by_store[store])
                     IN  <<[name |-> best_match.name, price |-> best_match.price,
                            amount |-> best_match.amount, unit |-> best_match.unit,
                            similarity |-> best_match.similarity_score]>>
                ELSE None]]]

\* The threshold rounded down to a whole number of items.
ValidCount_Rounded(count, max_items) == count >= (max_items * 7) \div 10

\* store_item_counts[store] >= max_items * 0.7
ValidCount(count, max_items) == count * 10 >= max_items * 7

\* sorted(all_stores)
SortedStores(stores) ==
    SelectSeq(<<"lidl", "tesco", "unknown">>, LAMBDA store : store \in stores)

\* savings_percent = (savings / total) * 100 raises ZeroDivisionError for
\* some store of the totals listing.
SavingsPercentRaises(store_totals, valid_stores, best_store) ==
    \E store \in DOMAIN valid_stores :
        store # best_store /\ store_totals[store] = 0

\* The recommendation text of a shopping list, as the values it prints (the
\* percentages left out): the totals listing in sorted store order and the
\* closing lines.
ListRecommendation(store_totals, store_item_counts, valid_stores, best_store, max_items) ==
    LET sorted == SortedStores(DOMAIN store_totals)
        best_total == valid_stores[best_store]
        gaps == {valid_stores[store] - best_total :
                    store \in DOMAIN valid_stores \ {best_store}}
    IN  [totals |->
            [i \in 1..Len(sorted) |->
                [store |-> sorted[i], total |-> store_totals[sorted[i]],
                 items_found |-> store_item_counts[sorted[i]],
                 max_items |-> max_items,
                 note |-> IF sorted[i] = best_store THEN "best"
                          ELSE IF sorted[i] \in DOMAIN valid_stores
                          THEN "dearer" ELSE "incomplete"]],
         shop_at |-> best_store,
         total_cost |-> best_total,
         items_found |-> store_item_counts[best_store],
         you_save |-> IF gaps # {} /\ MaxOf(gaps \cup {0}) > 0
                      THEN <<MaxOf(gaps)>> ELSE None]

\* The state of one call of get_best_store_for_list: the list (items), the
\* collaborator's hits per query (hitsOf), the locals, and the outcome: pc is
\* "idle", "returned" or "raised".
LstIdle(items, hitsOf) ==
    [pc |-> "idle", items |-> items, hitsOf |-> hitsOf, calls |-> <<>>,
     comparisons |-> <<>>, comp_order |-> <<>>, all_stores |-> <<>>,
     store_totals |-> <<>>, store_item_counts |-> <<>>, totals_order |-> <<>>,
     item_details |-> <<>>, valid_stores |-> <<>>, best_store |-> "", ret |-> <<>>]

\* Lines 267-309: the comparisons, the early return when there is none, and
\* the loop that fills store_totals, store_item_counts and item_details.
\* cs is the outcome of compare_shopping_list; iteration is the order in which
\* the interpreter iterates over a set of store names.
ListLoop(c, cs, iteration) ==
    LET comparisons == cs.results
        present == UNION {DOMAIN comparisons[q].items_by_store : q \in DOMAIN comparisons}
        all_stores == SelectSeq(iteration, LAMBDA store : store \in present)
        totals_order == TotalsOrder(cs.order, all_stores, comparisons, <<>>)
    IN  IF cs.raised THEN [c EXCEPT !.pc = "raised", !.calls = cs.calls]
        ELSE IF cs.order = <<>>
        THEN [c EXCEPT !.pc = "returned", !.calls = cs.calls,
                       !.ret = [recommendation |-> "No products found",
                                total_by_store |-> <<>>, items |-> <<>>,
                                item_details |-> <<>>]]
        ELSE [c EXCEPT !.calls = cs.calls, !.comparisons = comparisons,
                       !.comp_order = cs.order, !.all_stores = all_stores,
                       !.totals_order = totals_order,
                       !.store_totals =
                           [store \in Range(totals_order) |->
                               StoreTotal(cs.order, comparisons, store)],
                       !.store_item_counts =
                           [store \in Range(totals_order) |->
                               StoreCount(cs.order, comparisons, store)],
                       !.item_details = ItemDetails(cs.order, all_stores, comparisons)]

\* Only the distinct queries counted.
RequestedCount_Distinct(items) == Cardinality(Range(items))

\* max_items = len(items): duplicate queries and queries without a match
\* are counted.
RequestedCount(items) == Len(items)

\* Lines 311-409: the valid stores, the best store and the result. c is the
\* call after ListLoop.
ListReturn(c) ==
    LET max_items == RequestedCount(c.items)
        valid_order ==
            SelectSeq(c.totals_order,
                      LAMBDA store : ValidCount(c.store_item_counts[store], max_items))
        valid_stores == [store \in Range(valid_order) |-> c.store_totals[store]]
        best_store == CheapestStore(valid_order, valid_stores)
    IN  IF c.pc # "idle" THEN c
        ELSE IF valid_order = <<>>
        THEN [c EXCEPT !.pc = "returned", !.valid_stores = valid_stores,
                       !.ret = [recommendation |-> "No store has most of the products",
                                total_by_store |-> c.store_totals,
                                items |-> c.comparisons,
                                item_details |-> c.item_details]]
        ELSE IF SavingsPercentRaises(c.store_totals, valid_stores, best_store)
        THEN [c EXCEPT !.pc = "raised", !.valid_stores = valid_stores,
                       !.best_store = best_store]
        ELSE [c EXCEPT !.pc = "returned", !.valid_stores = valid_stores,
                       !.best_store = best_store,
                       !.ret = [best_store |-> best_store,
                                best_total |-> valid_stores[best_store],
                                recommendation |->
                                    ListRecommendation(c.store_totals,
                                        c.store_item_counts, valid_stores,
                                        best_store, max_items),
                                total_by_store |-> c.store_totals,
                                items |-> c.comparisons,
                                item_details |-> c.item_details]]

\* get_best_store_for_list, lines 252-409: compare_shopping_list, then the
\* loop, then the result, each computed once from the one before.
get_best_store_for_list(c, iteration) ==
    CHOOSE r \in {ListReturn(looped) :
                    looped \in {ListLoop(c, cs, iteration) :
                                  cs \in {compare_shopping_list(c.items, c.hitsOf)}}} : TRUE

\* The orders a set of store names may be iterated in.
Iterations ==
    {<<"tesco", "lidl", "unknown">>, <<"lidl", "tesco", "unknown">>}

NoHits == [q \in Queries |-> <<>>]

\* ------------------------------------------------------- concurrent calls
Callers == {1, 2}

\* The calls whose seen-identifier set a call reads and writes. With every
\* call in the scope the set is shared.
SeenScope_All(i) == Callers

\* seen_place_ids is a local of the call.
SeenScope(i) == {i}

\* The places the API reports to concurrent calls, and the hits the search
\* collaborator returns to the two callers of compare_prices.
PairEntries == {place \in PlaceEntries : place.id \in {1, 3} /\ place.loc # NoLoc}
PairHits ==
    <<<<ScenarioHit("tesco", 100), ScenarioHit("lidl", 110)>>,
      <<Hit(min_similarity_score, "tesco", 0), Hit(min_similarity_score, "lidl", 2)>> >>

\* The steps of a call of find_nearby_places, each with what the
\* collaborator answers: the entry, a request answered or failed, one place
\* of the page, the end of the page with its token, the return.
PairSteps ==
    {[op |-> "enter"], [op |-> "ok"], [op |-> "error"], [op |-> "return"]}
    \cup {[op |-> "place", place |-> place] : place \in PairEntries}
    \cup {[op |-> "end", token |-> token] : token \in Tokens}

\* The step can be taken from state c. A page carries at most one place.
StepEnabled(c, step) ==
    CASE step.op = "enter" -> c.pc = "idle"
      [] step.op \in {"ok", "error"} -> c.pc = "loop" /\ LoopCond(c)
      [] step.op = "place" -> c.pc = "page" /\ c.n = 0
      [] step.op = "end" -> c.pc = "page"
      [] step.op = "return" -> (c.pc = "loop" /\ ~LoopCond(c)) \/ c.pc = "sort"

StepOf(c, step) ==
    CASE step.op = "enter" -> FnpEnter(c, TRUE, MaxMinUnique, MaxPages, MaxPerBrand)
      [] step.op = "ok" -> PostOk(c)
      [] step.op = "error" -> PostRaise(c)
      [] step.op = "place" -> HandlePlace(c, step.place)
      [] step.op = "end" -> EndPage(c, step.token)
      [] step.op = "return" -> FnpReturn(c)

InProgress(c) == c.pc \notin {"idle", "returned", "raised"}

\* Two idle calls of each function. log[i] is the steps call i has taken;
\* overlapped tells that a call took a step while the other was under way.
TwoIdle ==
    [fnp |-> [i \in Callers |-> FnpIdle],
     cmp |-> [i \in Callers |-> CmpIdle(<<>>)],
     log |-> [i \in Callers |-> <<>>],
     overlapped |-> FALSE]

\* ------------------------------------------ the find_nearby_places agent tool
\* The threads that have a thread-data file name, `{thread_id}.json`.
ThreadIds == {"t1", "t2"}

\* deps.thread_id: None, the empty string, or the id of a thread.
ThreadIdArgs == {None, <<"">>} \cup {<<t>> : t \in ThreadIds}

\* if deps.thread_id:
HasThread(thread_id) == thread_id # None /\ thread_id[1] # ""

\* A thread-data file: missing, not parseable as JSON, or a JSON object.
Absent == [kind |-> "absent"]
Unreadable == [kind |-> "unreadable"]
Json(data) == [kind |-> "json", data |-> data]

\* The tuple the resolver collects for place i of the catalog.
PlaceTuple(i) ==
    <<haversine_m(QueryLat, QueryLng, PlaceLat(i), QueryLng), PlaceName(i), PlaceLat(i),
      QueryLng, i>>

\* What the resolver answers to the tool: it raises, or returns the dicts of
\* the k first places of the catalog, nearest first.
ResolverAnswers ==
    {[raised |-> TRUE, places |-> <<>>]}
    \cup {[raised |-> FALSE, places |-> ToDicts(SortByDist([i \in 1..k |-> PlaceTuple(i)]))] :
              k \in 0..NumIds}

\* The files a thread can have before the tool runs.
StoredFiles ==
    {Absent, Unreadable, Json([k \in {"lat"} |-> 1]),
     Json([k \in {"lat", "places"} |->
              IF k = "lat" THEN 1 ELSE ToDicts(<<PlaceTuple(2)>>)])}

\* data = {}; the file is read when it exists, and a read that fails leaves {}.
LoadData(file) == IF file.kind = "json" THEN file.data ELSE <<>>

\* A record that holds the places and nothing else.
WithPlaces_Only(data, places) == [k \in {"places"} |-> places]

\* data["places"] = places
WithPlaces(data, places) ==
    [k \in DOMAIN data \cup {"places"} |-> IF k = "places" THEN places ELSE data[k]]

\* with td_file.open("w") as fh: json.dump(data, fh), inside try/except: the
\* write succeeds, the open fails (the file is as it was), or the dump fails
\* after the open truncated the file.
WriteOutcomes == {"ok", "open_fails", "dump_fails"}
Written(file, data, w) ==
    CASE w = "ok" -> Json(data)
      [] w = "open_fails" -> file
      [] w = "dump_fails" -> Unreadable

\* places[: max(1, top_k)], each reduced to its name and distance.
Shown(places, top_k) ==
    LET n == IF top_k > 1 THEN top_k ELSE 1
        m == IF Len(places) < n THEN Len(places) ELSE n
    IN  [i \in 1..m |-> [name |-> places[i].name, distance_m |-> places[i].distance_m]]

\* The tool before it runs; `before` keeps the files as they were.
ToolIdle ==
    [pc |-> "idle", files |-> [t \in ThreadIds |-> Absent],
     before |-> [t \in ThreadIds |-> Absent], has_deps |-> TRUE, thread_id |-> None,
     places |-> <<>>, top_k |-> 0, write |-> "ok", ret |-> <<>>]

\* The tool: has_deps tells whether ctx.deps is set, answer is what the
\* resolver does, w what the write of the file does.
find_nearby_places(c, has_deps, thread_id, answer, top_k, w) ==
    LET called == [c EXCEPT !.has_deps = has_deps, !.thread_id = thread_id,
                            !.top_k = top_k, !.write = w]
    IN  IF ~has_deps \/ answer.raised
        THEN [called EXCEPT !.pc = "raised"]
        ELSE LET places == answer.places
                 files == IF HasThread(thread_id)
                          THEN LET t == thread_id[1]
                                   data == WithPlaces(LoadData(c.files[t]), places)
                               IN  [c.files EXCEPT ![t] = Written(@, data, w)]
                          ELSE c.files
             IN  [called EXCEPT !.pc = "returned", !.places = places, !.files = files,
                                !.ret = Shown(places, top_k)]

\* ------------------------------------------------------------- StatsService
\* A message of a stored thread.
UserMessage(content) == [role |-> "user", content |-> content]
AssistantMessage(content) == [role |-> "assistant", content |-> content]

\* What the users of the model write, one item per message.
Contents == <<"cake", "apple">>

\* The messages of a thread after k exchanges.
ThreadOf(k) ==
    [i \in 1..(2 * k) |->
        IF i % 2 = 1 THEN UserMessage(Contents[(((i + 1) \div 2 - 1) % Len(Contents)) + 1])
        ELSE AssistantMessage("ok")]

\* What agent.run_sync does with a prompt: it raises, or its output is an item.
AgentOutcomes == {[raised |-> TRUE, output |-> ""], [raised |-> FALSE, output |-> "soda"]}

\* _load_thread_messages: [] when the thread has no file.
ThreadMessages(file) == IF file.kind = "json" THEN file.data ELSE <<>>

\* The number of prompts the analysis of the threads in S gives the agent at
\* most: the most user messages of one of them.
Prompts(c, S) ==
    LET IsUser(m) == m.role = "user"
    IN  MaxOf({0} \cup {Len(SelectSeq(ThreadMessages(c.threads[t]), IsUser)) : t \in S})

\* The item counted for each user message: the agent's output, or the
\* message's own content when the agent raised. outs[j] is what the agent
\* does with the j-th user message.
Counted(messages, outs) ==
    LET IsUser(m) == m.role = "user"
        users == SelectSeq(messages, IsUser)
    IN  [j \in 1..Len(users) |->
            IF outs[j].raised THEN users[j].content ELSE outs[j].output]

\* The keys of a Counter, in the order of their first count.
RECURSIVE Distinct(_)
Distinct(names) ==
    IF names = <<>> THEN <<>>
    ELSE LET front == Distinct(SubSeq(names, 1, Len(names) - 1))
             name == names[Len(names)]
         IN  IF name \in Range(front) THEN front ELSE Append(front, name)

CountOf(names, name) == Cardinality({i \in 1..Len(names) : names[i] = name})

RECURSIVE InsertByCount(_, _)
InsertByCount(sorted, entry) ==
    IF sorted = <<>> THEN <<entry>>
    ELSE IF sorted[Len(sorted)].count >= entry.count THEN Append(sorted, entry)
    ELSE Append(InsertByCount(SubSeq(sorted, 1, Len(sorted) - 1), entry), sorted[Len(sorted)])

RECURSIVE SortByCount(_)
SortByCount(entries) ==
    IF entries = <<>> THEN <<>>
    ELSE InsertByCount(SortByCount(SubSeq(entries, 1, Len(entries) - 1)), entries[Len(entries)])

\* Counter.most_common(20) as a list of name and count: the largest count
\* first, equal counts in the order of their first count.
MostCommonLimit == 20
MostCommon(names) ==
    LET keys == Distinct(names)
        sorted == SortByCount([i \in 1..Len(keys) |->
                                  [name |-> keys[i], count |-> CountOf(names, keys[i])]])
    IN  SubSeq(sorted, 1, IF Len(sorted) < MostCommonLimit THEN Len(sorted) ELSE MostCommonLimit)

\* any(h in name for h in high_cal), any(h in name for h in healthy): an item
\* of the model contains a listed word only when it is that word.
HighCalorie(name) ==
    name \in {"chocolate", "bacon", "butter", "cake", "pizza", "fries", "soda"}
Healthy(name) ==
    name \in {"tomato", "salad", "lettuce", "chicken breast", "fish", "broccoli", "apple"}

HealthScore(high_hits, healthy_hits) ==
    IF healthy_hits > high_hits * 2 THEN 5
    ELSE IF healthy_hits > high_hits THEN 4
    ELSE IF high_hits > healthy_hits * 2 THEN 2
    ELSE 3

\* _analyze_messages at time `now`. No message of the model holds a recipe,
\* and no product is attached to an item, so both discount figures are 0.
analyze_messages(messages, outs, now) ==
    LET names == Counted(messages, outs)
        high_hits == Cardinality({i \in 1..Len(names) : HighCalorie(names[i])})
        healthy_hits == Cardinality({i \in 1..Len(names) : Healthy(names[i])})
    IN  [updated_at |-> now,
         favorites |-> MostCommon(names),
         caloric_trend |-> <<[high_calorie_mentions |-> high_hits,
                              healthy_mentions |-> healthy_hits,
                              health_score |-> HealthScore(high_hits, healthy_hits)]>>,
         recommendations |-> <<>>,
         recipes |-> <<>>,
         discounts |-> [average_discount |-> 0, capture_rate |-> 0]]

\* What the service has done so far, kept before each operation.
Snapshot(c) ==
    [store |-> c.store, analysed |-> c.analysed, written |-> c.written, clock |-> c.clock]

\* The service before any call. threads: the thread files; store: the
\* analytics files; clock: the time; analysed, written: how often a thread
\* was analysed and its record written; last: what the most recent
\* compute_and_store of a thread returned; all: what compute_all returned, if
\* it was the last operation; op, prev: the last operation and the snapshot
\* taken before it.
AnaIdle ==
    LET c == [threads |-> [t \in ThreadIds |-> Absent],
              store |-> [t \in ThreadIds |-> Absent],
              clock |-> 0,
              analysed |-> [t \in ThreadIds |-> 0],
              written |-> [t \in ThreadIds |-> 0],
              last |-> [t \in ThreadIds |-> None],
              all |-> None,
              op |-> [name |-> "none", tid |-> "t1", recompute |-> FALSE]]
    IN  [k \in DOMAIN c \cup {"prev"} |-> IF k = "prev" THEN Snapshot(c) ELSE c[k]]

\* A cache test that never uses the stored record.
UseStored_Never(exists, recompute) == FALSE

\* if out_file.exists() and not recompute
UseStored(exists, recompute) == exists /\ ~recompute

compute_and_store(c, thread_id, recompute, outs) ==
    IF UseStored(c.store[thread_id].kind # "absent", recompute)
    THEN [c EXCEPT !.last[thread_id] = <<c.store[thread_id].data>>]
    ELSE LET messages == ThreadMessages(c.threads[thread_id])
             stats == analyze_messages(messages, outs, c.clock + 1)
         IN  [c EXCEPT !.clock = @ + 1,
                       !.analysed[thread_id] = @ + 1,
                       !.store[thread_id] = Json(stats),
                       !.written[thread_id] = @ + 1,
                       !.last[thread_id] = <<stats>>]

\* StatsService.load: None when the thread has no record.
load(c, thread_id) ==
    IF c.store[thread_id].kind = "absent" THEN None ELSE <<c.store[thread_id].data>>

\* list_thread_ids: the threads that have a file.
list_thread_ids(c) == {t \in ThreadIds : c.threads[t].kind # "absent"}

\* The orders in which the directory may list the threads in S.
Orders(S) ==
    {order \in [1..Cardinality(S) -> S] : \A t \in S : \E i \in DOMAIN order : order[i] = t}

\* threads[tid] = stats
SetKey(d, k, v) == [x \in DOMAIN d \cup {k} |-> IF x = k THEN v ELSE d[x]]

\* The loop of compute_all over the listed threads; it yields the service and
\* the `threads` dict.
RECURSIVE AllLoop(_, _, _, _, _)
AllLoop(c, order, threads, recompute, outs) ==
    IF order = <<>> THEN [c |-> c, threads |-> threads]
    ELSE LET tid == Head(order)
             loaded == IF recompute THEN None ELSE load(c, tid)
         IN  IF loaded = None
             THEN AllLoop(compute_and_store(c, tid, FALSE, outs), Tail(order),
                          SetKey(threads, tid, compute_and_store(c, tid, FALSE, outs).last[tid][1]),
                          recompute, outs)
             ELSE AllLoop(c, Tail(order), SetKey(threads, tid, loaded[1]), recompute, outs)

\* all_favorites after the loop, as the names counted one by one.
RECURSIVE CountedFavorites(_, _)
CountedFavorites(order, threads) ==
    IF order = <<>> THEN <<>>
    ELSE LET favs == threads[Head(order)].favorites
             RECURSIVE Spread(_, _)
             Spread(i, n) ==
                 IF i > Len(favs) THEN <<>>
                 ELSE IF n >= favs[i].count THEN Spread(i + 1, 0)
                 ELSE <<favs[i].name>> \o Spread(i, n + 1)
         IN  Spread(1, 0) \o CountedFavorites(Tail(order), threads)

\* What _health_summary returns: the model's text, or the fallback text.
HealthSummaries == {"summary", "Health trend summary unavailable at the moment."}

compute_all(c, recompute, order, outs, health) ==
    LET looped == AllLoop(c, order, <<>>, recompute, outs)
        result == [updated_at |-> looped.c.clock + 1,
                   threads |-> looped.threads,
                   health_summary |-> health,
                   favorites_aggregate |-> MostCommon(CountedFavorites(order, looped.threads))]
    IN  [looped.c EXCEPT !.clock = @ + 1, !.all = <<result>>]

\* ---------------------------------------------------------- RAGSystem.chat
\* The thread ids callers pass, and every id a thread can have: a call
\* without thread_id draws a uuid4, an id no thread has had.
GivenThreads == {1, 2}
ChatThreads == 1..(Cardinality(GivenThreads) + MaxChats)
Uuid4(drawn) == Cardinality(GivenThreads) + drawn + 1

\* The query of call i and the reply the agent gives to it.
Query(i) == <<"query", i>>
Reply(i) == <<"reply", i>>

\* _load_thread: [] when the thread has no file.
load_thread(store, thread_id) ==
    IF store[thread_id].kind = "json" THEN store[thread_id].data ELSE <<>>

\* An update that keeps the reply only.
Exchange_ReplyOnly(messages, query, reply) == Append(messages, AssistantMessage(reply))

\* messages.append(user); messages.append(assistant)
Exchange(messages, query, reply) ==
    Append(Append(messages, UserMessage(query)), AssistantMessage(reply))

\* What retrieve_context does for a call: not used, returns, or raises.
Retrievals == {"unused", "ok", "raises"}

InFlight(c) == {i \in DOMAIN c.calls : c.calls[i].pc = "loaded"}

\* No call yet. calls[i]: where call i is, its thread, whether it drew the
\* id, its local `messages`, and the calls that were under way on its thread
\* when it loaded it; started, drawn: the calls begun and uuids
\* drawn; done: the calls that returned, in order; raced: the threads on
\* which a call began while another was under way; op, before: the last
\* step and the stored threads before it.
ChatIdle ==
    [store |-> [t \in ChatThreads |-> Absent],
     calls |-> [i \in 1..MaxChats |->
                   [pc |-> "idle", thread_id |-> 1, fresh |-> FALSE, messages |-> <<>>,
                    beside |-> {}]],
     started |-> 0, drawn |-> 0, done |-> <<>>, raced |-> {},
     op |-> [name |-> "none", i |-> 1],
     before |-> [t \in ChatThreads |-> Absent]]

\* chat_async up to the await of the agent: the thread id is fixed, the
\* thread loaded, the context retrieved.
ChatBegin(c, thread_id, retrieval) ==
    LET i == c.started + 1
        tid == IF thread_id = None THEN Uuid4(c.drawn) ELSE thread_id[1]
    IN  [c EXCEPT !.started = i,
                  !.drawn = IF thread_id = None THEN @ + 1 ELSE @,
                  !.calls[i] = [pc |-> IF retrieval = "raises" THEN "raised" ELSE "loaded",
                                thread_id |-> tid, fresh |-> thread_id = None,
                                messages |-> load_thread(c.store, tid),
                                beside |-> {j \in InFlight(c) : c.calls[j].thread_id = tid}],
                  !.raced = IF \E j \in InFlight(c) : c.calls[j].thread_id = tid
                            THEN @ \cup {tid} ELSE @,
                  !.op = [name |-> "begin", i |-> i],
                  !.before = c.store]

\* The agent answers: both messages are appended and the thread is saved.
ChatReturn(c, i) ==
    LET messages == Exchange(c.calls[i].messages, Query(i), Reply(i))
    IN  [c EXCEPT !.calls[i].pc = "returned",
                  !.calls[i].messages = messages,
                  !.store[c.calls[i].thread_id] = Json(messages),
                  !.done = Append(@, i),
                  !.op = [name |-> "return", i |-> i],
                  !.before = c.store]

\* The agent's run raises: the call ends before the thread is saved.
ChatRaise(c, i) ==
    [c EXCEPT !.calls[i].pc = "raised", !.op = [name |-> "raise", i |-> i],
              !.before = c.store]

\* ------------------------------------------------------------------ actions
Call ==
    /\ fnp.pc = "idle"
    /\ \E key_set \in BOOLEAN, mu \in 0..MaxMinUnique, mp \in 0..MaxPages,
          mpb \in 0..MaxPerBrand :
          fnp' = FnpEnter(fnp, key_set, mu, mp, mpb)
    /\ UNCHANGED <<cmp, lst, two, tool, ana, chat>>

Request ==
    /\ fnp.pc = "loop"
    /\ LoopCond(fnp)
    /\ fnp' = PostOk(fnp)
    /\ UNCHANGED <<cmp, lst, two, tool, ana, chat>>

RequestFails ==
    /\ fnp.pc = "loop"
    /\ LoopCond(fnp)
    /\ fnp' = PostRaise(fnp)
    /\ UNCHANGED <<cmp, lst, two, tool, ana, chat>>

Place ==
    /\ fnp.pc = "page"
    /\ fnp.n < MaxPageLen
    /\ \E place \in PlaceEntries : fnp' = HandlePlace(fnp, place)
    /\ UNCHANGED <<cmp, lst, two, tool, ana, chat>>

PageEnd ==
    /\ fnp.pc = "page"
    /\ \E token \in Tokens : fnp' = EndPage(fnp, token)
    /\ UNCHANGED <<cmp, lst, two, tool, ana, chat>>

Return ==
    /\ \/ fnp.pc = "loop" /\ ~LoopCond(fnp)
       \/ fnp.pc = "sort"
    /\ fnp' = FnpReturn(fnp)
    /\ UNCHANGED <<cmp, lst, two, tool, ana, chat>>

ComparePrices ==
    /\ cmp.pc = "idle"
    /\ cmp' = compare_prices(cmp)
    /\ UNCHANGED <<fnp, lst, two, tool, ana, chat>>

GetBestStoreForList ==
    /\ lst.pc = "idle"
    /\ \E iteration \in Iterations : lst' = get_best_store_for_list(lst, iteration)
    /\ UNCHANGED <<fnp, cmp, two, tool, ana, chat>>

\* A step of one of the two calls of find_nearby_places.
ResolverStep ==
    \E i \in Callers, step \in PairSteps :
        /\ StepEnabled(two.fnp[i], step)
        /\ LET c == two.fnp[i]
               seen == UNION {two.fnp[j].seen_place_ids : j \in SeenScope(i)}
           IN  two' = [two EXCEPT
                          !.fnp[i] = StepOf([c EXCEPT !.seen_place_ids = seen], step),
                          !.log[i] = Append(@, step),
                          !.overlapped = @ \/ \E j \in Callers \ {i} : InProgress(two.fnp[j])]
        /\ UNCHANGED <<fnp, cmp, lst, tool, ana, chat>>

\* One of the two calls of compare_prices.
ComparerStep ==
    \E i \in Callers :
        /\ two.cmp[i].pc = "idle"
        /\ two' = [two EXCEPT !.cmp[i] = compare_prices(@)]
        /\ UNCHANGED <<fnp, cmp, lst, tool, ana, chat>>

\* One run of the agent tool.
ToolRun ==
    /\ tool.pc = "idle"
    /\ \E has_deps \in BOOLEAN, thread_id \in ThreadIdArgs, answer \in ResolverAnswers,
          top_k \in 0..MaxTopK, w \in WriteOutcomes :
           tool' = find_nearby_places(tool, has_deps, thread_id, answer, top_k, w)
    /\ UNCHANGED <<fnp, cmp, lst, two, ana, chat>>

\* A chat adds an exchange to a thread's file.
ThreadGrows ==
    \E t \in ThreadIds :
        /\ Len(ThreadMessages(ana.threads[t])) < 2 * MaxUserMessages
        /\ ana' = [ana EXCEPT
                      !.threads[t] = Json(ThreadOf(Len(ThreadMessages(ana.threads[t])) \div 2 + 1)),
                      !.all = None,
                      !.op = [name |-> "thread", tid |-> t, recompute |-> FALSE],
                      !.prev = Snapshot(ana)]
        /\ UNCHANGED <<fnp, cmp, lst, two, tool, chat>>

\* One call of compute_and_store.
ComputeAndStore ==
    \E t \in ThreadIds, recompute \in BOOLEAN :
      \E outs \in [1..Prompts(ana, {t}) -> AgentOutcomes] :
        /\ ana.clock < MaxClock
        /\ ana' = [compute_and_store(ana, t, recompute, outs) EXCEPT
                      !.all = None,
                      !.op = [name |-> "compute_and_store", tid |-> t, recompute |-> recompute],
                      !.prev = Snapshot(ana)]
        /\ UNCHANGED <<fnp, cmp, lst, two, tool, chat>>

\* One call of compute_all.
ComputeAll ==
    \E recompute \in BOOLEAN, order \in Orders(list_thread_ids(ana)),
       outs \in [1..Prompts(ana, list_thread_ids(ana)) -> AgentOutcomes],
       health \in HealthSummaries :
        /\ ana.clock + Len(order) < MaxClock
        /\ ana' = [compute_all(ana, recompute, order, outs, health) EXCEPT
                      !.op = [name |-> "compute_all", tid |-> "t1", recompute |-> recompute],
                      !.prev = Snapshot(ana)]
        /\ UNCHANGED <<fnp, cmp, lst, two, tool, chat>>

\* A call of chat / chat_async begins.
Begin ==
    /\ chat.started < MaxChats
    /\ Cardinality(InFlight(chat)) < MaxInFlight
    /\ \E thread_id \in {None} \cup {<<t>> : t \in GivenThreads}, retrieval \in Retrievals :
           chat' = ChatBegin(chat, thread_id, retrieval)
    /\ UNCHANGED <<fnp, cmp, lst, two, tool, ana>>

\* The agent's run of a call ends with an answer.
AgentAnswers ==
    /\ \E i \in InFlight(chat) : chat' = ChatReturn(chat, i)
    /\ UNCHANGED <<fnp, cmp, lst, two, tool, ana>>

\* The agent's run of a call raises.
AgentRaises ==
    /\ \E i \in InFlight(chat) : chat' = ChatRaise(chat, i)
    /\ UNCHANGED <<fnp, cmp, lst, two, tool, ana>>

\* One call of find_nearby_places against every course of page responses.
InitResolver == fnp = FnpIdle /\ cmp = CmpIdle(<<>>) /\ lst = LstIdle(<<>>, NoHits) /\ two = TwoIdle
    /\ tool = ToolIdle
    /\ ana = AnaIdle
    /\ chat = ChatIdle
NextResolver == Call \/ Request \/ RequestFails \/ Place \/ PageEnd \/ Return
SpecResolver == InitResolver /\ [][NextResolver]_vars

\* One call of compare_prices on every list of at most MaxHits hits, by a
\* comparer built with either threshold.
InitComparator ==
    /\ fnp = FnpIdle
    /\ cmp \in {[CmpIdle(results) EXCEPT !.price_threshold = t] :
                    results \in SeqsUpTo(Hits, MaxHits), t \in Thresholds}
    /\ lst = LstIdle(<<>>, NoHits) /\ two = TwoIdle
    /\ tool = ToolIdle
    /\ ana = AnaIdle
    /\ chat = ChatIdle
NextComparator == ComparePrices
SpecComparator == InitComparator /\ [][NextComparator]_vars

\* One call of get_best_store_for_list on every list of at most MaxItems
\* queries, against every assignment of hit lists to the queries.
InitList ==
    /\ fnp = FnpIdle
    /\ cmp = CmpIdle(<<>>)
    /\ lst \in {LstIdle(items, hitsOf) :
                    items \in SeqsUpTo(Queries, MaxItems), hitsOf \in [Queries -> HitLists]}
    /\ two = TwoIdle
    /\ tool = ToolIdle
    /\ ana = AnaIdle
    /\ chat = ChatIdle
NextList == GetBestStoreForList
SpecList == InitList /\ [][NextList]_vars

\* Two calls of find_nearby_places and two calls of compare_prices, their
\* steps interleaved in every way.
InitPair ==
    /\ fnp = FnpIdle
    /\ cmp = CmpIdle(<<>>)
    /\ lst = LstIdle(<<>>, NoHits)
    /\ two = [TwoIdle EXCEPT !.cmp = [i \in Callers |-> CmpIdle(PairHits[i])]]
    /\ tool = ToolIdle
    /\ ana = AnaIdle
    /\ chat = ChatIdle
NextPair == ResolverStep \/ ComparerStep
SpecPair == InitPair /\ [][NextPair]_vars

\* One run of the agent tool over every state of the thread-data files.
InitTool ==
    /\ fnp = FnpIdle
    /\ cmp = CmpIdle(<<>>)
    /\ lst = LstIdle(<<>>, NoHits)
    /\ two = TwoIdle
    /\ tool \in {[ToolIdle EXCEPT !.files = f, !.before = f] : f \in [ThreadIds -> StoredFiles]}
    /\ ana = AnaIdle
    /\ chat = ChatIdle
NextTool == ToolRun
SpecTool == InitTool /\ [][NextTool]_vars

\* The analytics service over threads that grow between its calls.
InitStats ==
    /\ fnp = FnpIdle
    /\ cmp = CmpIdle(<<>>)
    /\ lst = LstIdle(<<>>, NoHits)
    /\ two = TwoIdle
    /\ tool = ToolIdle
    /\ ana = AnaIdle
    /\ chat = ChatIdle
NextStats == ThreadGrows \/ ComputeAndStore \/ ComputeAll
SpecStats == InitStats /\ [][NextStats]_vars

\* At most MaxChats chats, at most MaxInFlight of them under way at a time.
InitChat ==
    /\ fnp = FnpIdle
    /\ cmp = CmpIdle(<<>>)
    /\ lst = LstIdle(<<>>, NoHits)
    /\ two = TwoIdle
    /\ tool = ToolIdle
    /\ ana = AnaIdle
    /\ chat = ChatIdle
NextChat == Begin \/ AgentAnswers \/ AgentRaises
SpecChat == InitChat /\ [][NextChat]_vars

\* ------------------------------------------------- properties: the resolver
\* The identifiers and brand keys of a list of results or of returned dicts.
ResultIds(rs) == {rs[i][5] : i \in 1..Len(rs)}
RetIds(ds) == {ds[i].place_id : i \in 1..Len(ds)}
RetOfBrand(ds, bk) == {i \in 1..Len(ds) : brand_key(ds[i].name) = bk}
ResultsOfBrand(rs, bk) == {i \in 1..Len(rs) : brand_key(rs[i][2]) = bk}

\* C1: the returned list is sorted by non-decreasing distance_m, whatever
\* max_per_brand is.
C1_SortedByDistance ==
    fnp.pc = "returned" =>
        \A i \in 1..(Len(fnp.ret) - 1) : fnp.ret[i].distance_m <= fnp.ret[i + 1].distance_m

\* A call that collected a farther place before a nearer one and returned both.
C1_Witness ==
    /\ fnp.pc = "returned"
    /\ Len(fnp.ret) >= 2
    /\ \E i \in 1..(Len(fnp.collected) - 1) : fnp.collected[i][1] > fnp.collected[i + 1][1]
    /\ fnp.ret[1].distance_m < fnp.ret[Len(fnp.ret)].distance_m

\* C2: no two collected or returned places have the same identifier, and a
\* place with a new identifier and coordinates is collected whatever its name
\* and coordinates are (deduplication is by identifier only).
C2_UniqueIds ==
    /\ [](/\ \A i, j \in 1..Len(fnp.results) :
                 i # j => fnp.results[i][5] # fnp.results[j][5]
          /\ \A i, j \in 1..Len(fnp.ret) :
                 i # j => fnp.ret[i].place_id # fnp.ret[j].place_id)
    /\ [][\A place \in PlaceEntries :
             (/\ fnp.pc = "page" /\ fnp'.pc = "page"
              /\ fnp' = HandlePlace(fnp, place)
              /\ place.id # NoId
              /\ place.id \notin fnp.seen_place_ids
              /\ place.loc # NoLoc)
             => /\ Len(fnp'.results) = Len(fnp.results) + 1
                /\ fnp'.results[Len(fnp'.results)][5] = place.id]_vars

\* A call that was offered an identifier it had seen, and returned places 1
\* and 2 (same name, same coordinates, different identifiers).
C2_Witness ==
    /\ fnp.pc = "returned"
    /\ fnp.repeated
    /\ {1, 2} \subseteq RetIds(fnp.ret)
    /\ \E i, j \in 1..Len(fnp.ret) :
          /\ i # j
          /\ fnp.ret[i].name = fnp.ret[j].name
          /\ fnp.ret[i].lat = fnp.ret[j].lat

\* C3: with max_per_brand = k > 0 the returned list holds at most k places of
\* any one brand key.
C3_BrandCap ==
    (fnp.pc = "returned" /\ fnp.max_per_brand > 0) =>
        \A i \in 1..Len(fnp.ret) :
            Cardinality(RetOfBrand(fnp.ret, brand_key(fnp.ret[i].name))) <= fnp.max_per_brand

\* A call with max_per_brand = 2 that collected three places of one brand,
\* under two spellings, and returned two of them.
C3_Witness ==
    /\ fnp.pc = "returned"
    /\ fnp.max_per_brand = 2
    /\ \E i, j \in 1..Len(fnp.collected) :
          /\ fnp.collected[i][2] # fnp.collected[j][2]
          /\ brand_key(fnp.collected[i][2]) = brand_key(fnp.collected[j][2])
          /\ Cardinality(ResultsOfBrand(fnp.collected, brand_key(fnp.collected[i][2]))) = 3
          /\ Cardinality(RetOfBrand(fnp.ret, brand_key(fnp.collected[i][2]))) = 2

\* C4: with max_per_brand = 0 no collected place is removed: the returned
\* list is the collected list, sorted by distance.
C4_NoCapIsNoop ==
    (fnp.pc = "returned" /\ fnp.max_per_brand = 0) =>
        /\ Len(fnp.ret) = Len(fnp.collected)
        /\ RetIds(fnp.ret) = ResultIds(fnp.collected)
        /\ \A i \in 1..Len(fnp.collected) :
              \E j \in 1..Len(fnp.ret) :
                  /\ fnp.ret[j].place_id = fnp.collected[i][5]
                  /\ fnp.ret[j].name = fnp.collected[i][2]
                  /\ fnp.ret[j].lat = fnp.collected[i][3]
                  /\ fnp.ret[j].lng = fnp.collected[i][4]
                  /\ fnp.ret[j].distance_m = fnp.collected[i][1] \div Scale
        /\ \A i \in 1..(Len(fnp.ret) - 1) : fnp.ret[i].distance_m <= fnp.ret[i + 1].distance_m

\* A call with max_per_brand = 0 that returned three places of one brand.
C4_Witness ==
    /\ fnp.pc = "returned"
    /\ fnp.max_per_brand = 0
    /\ \E i \in 1..Len(fnp.ret) :
          Cardinality(RetOfBrand(fnp.ret, brand_key(fnp.ret[i].name))) >= 3

\* C5: a call sends at most max_pages page requests, sends none once
\* min_unique places are collected, and every request carries the next-page
\* token of the response before it (the first request carries none).
C5_PagingBudget ==
    /\ [](fnp.requests <= fnp.max_pages)
    /\ [][fnp'.requests # fnp.requests =>
             /\ fnp'.requests = fnp.requests + 1
             /\ fnp.requests < fnp.max_pages
             /\ Len(fnp.results) < fnp.min_unique
             /\ fnp'.sent = fnp.page_token
             /\ (fnp.requests = 0 => fnp'.sent = NoToken)
             /\ (fnp.requests > 0 => fnp'.sent # NoToken)]_vars

\* A call that stopped after one page, holding a next-page token and with a
\* page of budget left, because min_unique places were collected.
C5_Witness ==
    /\ fnp.pc = "returned"
    /\ fnp.requests = 1
    /\ fnp.max_pages = 2
    /\ fnp.page_token # NoToken
    /\ fnp.min_unique > 0
    /\ Len(fnp.collected) >= fnp.min_unique

\* C6: after a response without a next-page token the call sends no further
\* request: its next step returns, without error, the places collected so
\* far (all of them when max_per_brand = 0).
C6_StopsWithoutToken ==
    [][(fnp.pc # "page" /\ fnp.pages > 0 /\ fnp.page_token = NoToken) =>
          /\ fnp'.pc = "returned"
          /\ fnp'.requests = fnp.requests
          /\ RetIds(fnp'.ret) \subseteq ResultIds(fnp.results)
          /\ (fnp.max_per_brand = 0 => RetIds(fnp'.ret) = ResultIds(fnp.results))]_vars

\* A call that returned after one tokenless page with fewer than min_unique
\* places and a page of budget left.
C6_Witness ==
    /\ fnp.pc = "returned"
    /\ fnp.requests = 1
    /\ fnp.max_pages = 2
    /\ fnp.page_token = NoToken
    /\ Len(fnp.collected) = 1
    /\ Len(fnp.ret) = 1
    /\ fnp.min_unique = 2

\* C7: a failed page request ends the call with the error: nothing is
\* returned, the request is not sent again and no later page is requested.
C7_ErrorAborts ==
    /\ [](fnp.last_status = "error" => (fnp.pc = "raised" /\ fnp.ret = <<>>))
    /\ [][fnp.last_status = "error" => fnp' = fnp]_vars

\* A call whose second request failed after the first page gave a place.
C7_Witness ==
    /\ fnp.pc = "raised"
    /\ fnp.last_status = "error"
    /\ fnp.requests = 2
    /\ Len(fnp.results) >= 1

\* ----------------------------------------------- properties: the comparator
\* The hits of a store that pass the similarity test (the store of a hit
\* without "source" is "unknown").
Survivors(store) ==
    {i \in 1..Len(cmp.results) :
        /\ cmp.results[i]["score"] >= min_similarity_score
        /\ Get(cmp.results[i], "source", "unknown") = store}
SurvivingStores ==
    {Get(cmp.results[i], "source", "unknown") :
        i \in {j \in 1..Len(cmp.results) : cmp.results[j]["score"] >= min_similarity_score}}

\* C8: in every returned PriceComparison the cheapest store's price
\* difference is 0.0, also when the cheapest price is 0.
C8_CheapestDiffZero ==
    cmp.pc = "returned" => cmp.price_differences[cmp.cheapest_store] = 0

\* A returned comparison of two stores whose cheapest price is 0.
C8_Witness ==
    /\ cmp.pc = "returned"
    /\ cmp.cheapest_price = 0
    /\ Cardinality(DOMAIN cmp.price_differences) = 2

\* C9: every store with a surviving candidate has a representative price,
\* the least price among that store's surviving candidates; no other store
\* has one.
C9_RepresentativeIsMin ==
    cmp.pc \in {"returned", "raised"} =>
        /\ DOMAIN cmp.store_prices = SurvivingStores
        /\ \A store \in SurvivingStores :
              /\ \E i \in Survivors(store) :
                    cmp.store_prices[store] = MakeItem(cmp.results[i]).price
              /\ \A i \in Survivors(store) :
                    cmp.store_prices[store] <= MakeItem(cmp.results[i]).price

\* A comparison in which a store's second candidate is cheaper than its
\* first, and a cheaper candidate of the same store was filtered out.
C9_Witness ==
    /\ cmp.pc = "returned"
    /\ \E store \in DOMAIN cmp.store_prices :
          /\ Len(cmp.items_by_store[store]) = 2
          /\ cmp.items_by_store[store][1].price > cmp.items_by_store[store][2].price
          /\ cmp.store_prices[store] > 0
          /\ \E i \in 1..Len(cmp.results) :
                /\ cmp.results[i]["score"] < min_similarity_score
                /\ Get(cmp.results[i], "source", "unknown") = store
                /\ MakeItem(cmp.results[i]).price < cmp.store_prices[store]

\* C10: in every returned PriceComparison the cheapest store has a surviving
\* candidate, the cheapest price is that store's representative price, and
\* no store's representative price is below it.
C10_CheapestIsGlobalMin ==
    cmp.pc = "returned" =>
        /\ Survivors(cmp.cheapest_store) # {}
        /\ cmp.cheapest_store \in DOMAIN cmp.items_by_store
        /\ cmp.cheapest_price = cmp.store_prices[cmp.cheapest_store]
        /\ \A store \in DOMAIN cmp.store_prices :
              cmp.cheapest_price <= cmp.store_prices[store]

\* A comparison of three stores whose cheapest is not the first one found.
C10_Witness ==
    /\ cmp.pc = "returned"
    /\ Cardinality(DOMAIN cmp.store_prices) = 3
    /\ cmp.cheapest_store # cmp.order[1]
    /\ cmp.cheapest_price > 0

\* The surviving candidates of a store, as items, in the order of the hits.
RECURSIVE SurvivorItems(_, _)
SurvivorItems(results, store) ==
    IF results = <<>> THEN <<>>
    ELSE IF /\ Head(results)["score"] >= min_similarity_score
            /\ Get(Head(results), "source", "unknown") = store
    THEN <<MakeItem(Head(results))>> \o SurvivorItems(Tail(results), store)
    ELSE SurvivorItems(Tail(results), store)

\* C11: compare_prices returns None exactly when no hit has a score >=
\* min_similarity, and otherwise returns a PriceComparison whose
\* items_by_store holds exactly the hits with a score >= min_similarity.
C11_AbsentIffNoSurvivor ==
    cmp.pc # "idle" =>
        /\ (cmp.pc = "none" <=> SurvivingStores = {})
        /\ (SurvivingStores # {} =>
               /\ cmp.pc = "returned"
               /\ DOMAIN cmp.items_by_store = SurvivingStores
               /\ \A store \in SurvivingStores :
                     cmp.items_by_store[store] = SurvivorItems(cmp.results, store))

\* C12: when a store's representative price is 0, compare_prices completes
\* without a division by zero and gives that store a difference of 0.0, also
\* when other stores have positive representative prices.
C12_ZeroPriceNoDivision ==
    (cmp.pc \in {"returned", "raised"}
     /\ \E store \in DOMAIN cmp.store_prices : cmp.store_prices[store] = 0) =>
        /\ cmp.pc = "returned"
        /\ \A store \in DOMAIN cmp.store_prices :
              cmp.store_prices[store] = 0 => cmp.price_differences[store] = 0

\* The hits of the scenario: A at 1.00, A at 1.20, B at 1.10.
ScenarioResults ==
    <<ScenarioHit("tesco", 100), ScenarioHit("tesco", 120), ScenarioHit("lidl", 110)>>

\* C13: for every store of a returned PriceComparison with price p > 0 and
\* cheapest price c > 0, price_differences[store] is ((p - c) / c) * 100
\* rounded to 2 decimals (the hundredth nearest to it); candidates A:1.00,
\* A:1.20, B:1.10 give cheapest_store A at 1.00 and differences A: 0.0,
\* B: 10.0.
C13_DiffIsRoundedPercent ==
    cmp.pc = "returned" =>
        /\ \A store \in DOMAIN cmp.store_prices :
              LET p == cmp.store_prices[store]
                  c == cmp.cheapest_price
                  d == cmp.price_differences[store]
              IN  (p > 0 /\ c > 0) =>
                      /\ d >= 0
                      /\ 2 * Abs(d * c - (p - c) * 10000) <= c
        /\ cmp.results = ScenarioResults =>
              /\ cmp.cheapest_store = "tesco"
              /\ cmp.cheapest_price = 100
              /\ cmp.price_differences = [store \in {"tesco", "lidl"} |->
                                             IF store = "tesco" THEN 0 ELSE 1000]

C13_Witness ==
    /\ cmp.pc = "returned"
    /\ cmp.results = ScenarioResults

\* The hits that pass the similarity test, in order.
SurvivorHits(results) ==
    SelectSeq(results, LAMBDA h : h["score"] >= min_similarity_score)

\* The string-valued keys of a hit, other than the source, and the item
\* fields built from them.
StringKeys ==
    {<<"text", "name">>, <<"amount", "amount">>, <<"unit", "unit">>,
     <<"description", "description">>, <<"category", "category">>}

\* Every surviving hit has its item, and a key the hit lacks gives the
\* item 0 (price), store_default (store) or the empty string (the rest).
MissingDefaults(store_default) ==
    cmp.pc # "idle" =>
        LET hs == SurvivorHits(cmp.results)
        IN  /\ Len(cmp.items) = Len(hs)
            /\ \A k \in 1..Len(hs) :
                  /\ "price" \notin DOMAIN hs[k] => cmp.items[k].price = 0
                  /\ "source" \notin DOMAIN hs[k] => cmp.items[k].store = store_default
                  /\ \A kf \in StringKeys :
                        kf[1] \notin DOMAIN hs[k] => cmp.items[k][kf[2]] = ""

\* C20 as stated: search_groceries builds an item from a hit with missing
\* metadata without failing; a missing price becomes 0 and every missing
\* string (store, amount, unit, description, category, name) becomes "".
C20_MissingStringsEmpty == MissingDefaults("")

\* C20 as the code has it: a missing price becomes 0, a missing store becomes
\* "unknown", and every other missing string becomes "".
C20_MissingStoreUnknown == MissingDefaults("unknown")

\* A call whose surviving hits include one without a source and one without
\* a text.
C20_Witness ==
    /\ cmp.pc = "returned"
    /\ \E k \in 1..Len(cmp.items) :
          /\ "source" \notin DOMAIN SurvivorHits(cmp.results)[k]
          /\ cmp.items[k].store = "unknown"
    /\ \E k \in 1..Len(cmp.items) :
          /\ "text" \notin DOMAIN SurvivorHits(cmp.results)[k]
          /\ cmp.items[k].name = ""

\* One hit per store of the comparison, at the store's price.
ReducedResults(c) ==
    [i \in 1..Len(c.order) |->
        [score |-> min_similarity_score, source |-> c.order[i],
         price |-> [num |-> c.store_prices[c.order[i]]]]]

\* C18: in the recommendation, every non-cheapest store is labelled similar
\* if its percentage difference is <= the threshold and more expensive
\* otherwise; the last line names a savings amount exactly when some
\* non-cheapest store's difference exceeds the threshold, and the amount is
\* the greatest (store price - cheapest price); the text depends only on the
\* query, the store prices and the threshold: the hits reduced to one per
\* store at the store's price give the same text.
C18_Recommendation ==
    cmp.pc = "returned" =>
        LET rec == cmp.recommendation
            others == DOMAIN cmp.store_prices \ {cmp.cheapest_store}
            gaps == {cmp.store_prices[store] - cmp.cheapest_price : store \in others}
        IN  /\ Len(rec.other_stores) = Cardinality(others)
            /\ {rec.other_stores[i].store : i \in 1..Len(rec.other_stores)} = others
            /\ \A i \in 1..Len(rec.other_stores) :
                  LET line == rec.other_stores[i]
                  IN  /\ cmp.price_differences[line.store] <= cmp.price_threshold
                            => line.status = "similar"
                      /\ cmp.price_differences[line.store] > cmp.price_threshold
                            => line.status = "expensive"
            /\ rec.final.kind = "save" <=>
                  \E store \in others : cmp.price_differences[store] > cmp.price_threshold
            /\ rec.final.kind = "save" =>
                  /\ rec.final.max_savings \in gaps
                  /\ \A g \in gaps : g <= rec.final.max_savings
            /\ rec = compare_prices([CmpIdle(ReducedResults(cmp)) EXCEPT
                                        !.price_threshold = cmp.price_threshold]).recommendation

\* A comparison with a store labelled similar, a store labelled more
\* expensive and a savings line.
C18_Witness ==
    /\ cmp.pc = "returned"
    /\ \E i, j \in 1..Len(cmp.recommendation.other_stores) :
          /\ cmp.recommendation.other_stores[i].status = "similar"
          /\ cmp.recommendation.other_stores[j].status = "expensive"
    /\ cmp.recommendation.final.kind = "save"
    /\ cmp.recommendation.final.max_savings > 0

\* --------------------------------------------- properties: shopping lists
\* compare_shopping_list has returned and the loop over its result has run.
ListCompared == lst.comp_order # <<>>

\* The surviving hits of a query at a store, and the queries of the list a
\* store has a surviving hit for.
StoreHits(q, store) ==
    SelectSeq(SurvivorHits(lst.hitsOf[q]),
              LAMBDA h : Get(h, "source", "unknown") = store)
CoveredQueries(store) == {q \in Range(lst.items) : StoreHits(q, store) # <<>>}

\* The price of the first of the most similar hits, and the least price.
MostSimilarPrice(hs) ==
    LET i == CHOOSE i \in 1..Len(hs) :
                 /\ \A j \in 1..Len(hs) : hs[j]["score"] <= hs[i]["score"]
                 /\ \A j \in 1..(i - 1) : hs[j]["score"] < hs[i]["score"]
    IN  MakeItem(hs[i]).price
LeastPrice(hs) ==
    LET i == CHOOSE i \in 1..Len(hs) :
                 \A j \in 1..Len(hs) : MakeItem(hs[i]).price <= MakeItem(hs[j]).price
    IN  MakeItem(hs[i]).price

RECURSIVE SumOver(_, _)
SumOver(S, f) ==
    IF S = {} THEN 0
    ELSE LET x == CHOOSE x \in S : TRUE IN f[x] + SumOver(S \ {x}, f)

\* C14 as stated: each store's total is the sum, over the queries it covers,
\* of the least price among its surviving candidates for the query, and its
\* coverage count is the number of requested queries it has a surviving
\* candidate for.
C14_TotalOfLeastPrices ==
    ListCompared =>
        \A store \in DOMAIN lst.store_totals :
            /\ lst.store_totals[store] =
                  SumOver(CoveredQueries(store),
                          [q \in CoveredQueries(store) |-> LeastPrice(StoreHits(q, store))])
            /\ lst.store_item_counts[store] = Cardinality(CoveredQueries(store))

\* C14 as the code has it: each store's total is the sum, over the distinct
\* queries it covers, of the price of its most similar surviving candidate
\* for the query (the first of them), and its coverage count is the number
\* of distinct requested queries it has a surviving candidate for.
C14_TotalOfMostSimilar ==
    ListCompared =>
        /\ DOMAIN lst.store_totals = {store \in {"tesco", "lidl", "unknown"} :
                                         CoveredQueries(store) # {}}
        /\ \A store \in DOMAIN lst.store_totals :
              /\ lst.store_totals[store] =
                    SumOver(CoveredQueries(store),
                            [q \in CoveredQueries(store) |->
                                MostSimilarPrice(StoreHits(q, store))])
              /\ lst.store_item_counts[store] = Cardinality(CoveredQueries(store))

\* A list with a repeated query and a store whose most similar candidate for
\* a query is dearer than its cheapest.
C14_Witness ==
    /\ lst.pc = "returned"
    /\ ListCompared
    /\ Len(lst.items) > Cardinality(Range(lst.items))
    /\ \E store \in DOMAIN lst.store_totals :
          /\ Cardinality(CoveredQueries(store)) > 1
          /\ \E q \in CoveredQueries(store) :
                MostSimilarPrice(StoreHits(q, store)) > LeastPrice(StoreHits(q, store))

C16_BestIffSomeValid ==
    ListCompared =>
        /\ DOMAIN lst.valid_stores # {} <=>
              (lst.pc = "returned" /\ "best_store" \in DOMAIN lst.ret)
        /\ (lst.pc = "returned" /\ "best_store" \in DOMAIN lst.ret) =>
              /\ lst.ret.best_store \in DOMAIN lst.valid_stores
              /\ lst.ret.best_total = lst.store_totals[lst.ret.best_store]
              /\ \A store \in DOMAIN lst.valid_stores :
                    lst.ret.best_total <= lst.store_totals[store]
        /\ DOMAIN lst.valid_stores = {} =>
              /\ lst.pc = "returned"
              /\ "best_store" \notin DOMAIN lst.ret
              /\ "best_total" \notin DOMAIN lst.ret
              /\ lst.ret.total_by_store = lst.store_totals
              /\ lst.ret.items = lst.comparisons

\* C17: compare_shopping_list calls compare_prices once per requested query,
\* in list order; a query with no surviving candidate has no entry and the
\* call does not fail for it; every query with a surviving candidate has the
\* entry compare_prices returns for it alone.
C17_PerQueryComparisons ==
    lst.pc # "idle" =>
        /\ lst.calls = lst.items
        /\ lst.pc = "returned" \/ ListCompared
        /\ DOMAIN lst.comparisons =
              {q \in Range(lst.items) : SurvivorHits(lst.hitsOf[q]) # <<>>}
        /\ \A q \in DOMAIN lst.comparisons :
              lst.comparisons[q] = PriceComparison(ComparePricesOf(q, lst.hitsOf))

\* ------------------------------------------- properties: concurrent calls
\* The call run alone through the steps of a log.
RECURSIVE Replay(_, _)
Replay(c, log) ==
    IF log = <<>> THEN c ELSE Replay(StepOf(c, Head(log)), Tail(log))

C21_PriceKeptUnlessUnparseable ==
    cmp.pc # "idle" =>
        LET hs == SurvivorHits(cmp.results)
        IN  /\ Len(cmp.items) = Len(hs)
            /\ \A k \in 1..Len(hs) :
                  LET praw == Get(hs[k], "price", [num |-> 0])
                  IN  /\ ~FloatRaises(praw) => cmp.items[k].price = FloatOf(praw)
                      /\ FloatRaises(praw) =>
                            /\ cmp.items[k].price = 0
                            /\ cmp.pc # "raised"

\* ------------------------------------- properties: shopping lists, again
\* C26: get_best_store_for_list returns a result without raising whenever at
\* least one store is valid, also when a valid store other than the best one
\* has a total of 0.
C26_ReturnsWhenSomeValid ==
    (ListCompared /\ DOMAIN lst.valid_stores # {}) => lst.pc = "returned"

\* The distinct requested queries with a surviving candidate.
MatchedQueries == {q \in Range(lst.items) : SurvivorHits(lst.hitsOf[q]) # <<>>}

C28_SeenBeforeCoordinates ==
    /\ fnp.bare \subseteq fnp.seen_place_ids
    /\ fnp.bare \cap ResultIds(fnp.results) = {}
    /\ fnp.bare \cap ResultIds(fnp.collected) = {}
    /\ fnp.bare \cap RetIds(fnp.ret) = {}
    /\ Len(fnp.results) <= Cardinality(fnp.seen_place_ids \ fnp.bare)
    /\ NoId \notin fnp.seen_place_ids
    /\ NoId \notin ResultIds(fnp.results) \cup RetIds(fnp.ret)

\* An identifier came first without and later with coordinates, and the call
\* returned other places.
C28_Witness ==
    /\ fnp.pc = "returned"
    /\ fnp.late
    /\ fnp.bare # {}
    /\ fnp.ret # <<>>

\* The places collected before place i that the sort puts before it and that
\* share its brand key: nearer ones, and equally near ones collected earlier.
BrandBefore(rs, i) ==
    {j \in 1..Len(rs) :
        /\ j # i
        /\ brand_key(rs[j][2]) = brand_key(rs[i][2])
        /\ rs[j][1] < rs[i][1] \/ (rs[j][1] = rs[i][1] /\ j < i)}

\* C29: with max_per_brand = k > 0 the cap keeps the nearest places of each
\* brand: when a collected place is dropped, the output holds exactly k
\* places of its brand key, each at a distance <= the dropped place's; and
\* every collected place with fewer than k places of its brand before it is
\* in the output.
C29_CapKeepsNearest ==
    (fnp.pc = "returned" /\ fnp.max_per_brand > 0) =>
        \A i \in 1..Len(fnp.collected) :
            LET item == fnp.collected[i]
                same == ResultsOfBrand(fnp.results, brand_key(item[2]))
            IN  /\ item[5] \notin RetIds(fnp.ret) =>
                      /\ Cardinality(same) = fnp.max_per_brand
                      /\ Cardinality(RetOfBrand(fnp.ret, brand_key(item[2]))) = fnp.max_per_brand
                      /\ \A j \in same : fnp.results[j][1] <= item[1]
                /\ Cardinality(BrandBefore(fnp.collected, i)) < fnp.max_per_brand =>
                      item[5] \in RetIds(fnp.ret)

\* A place was dropped although it was collected before a nearer place of
\* its brand, which was kept.
C29_Witness ==
    /\ fnp.pc = "returned"
    /\ fnp.max_per_brand > 0
    /\ \E i, j \in 1..Len(fnp.collected) :
          /\ i < j
          /\ brand_key(fnp.collected[i][2]) = brand_key(fnp.collected[j][2])
          /\ fnp.collected[j][1] < fnp.collected[i][1]
          /\ fnp.collected[i][5] \notin RetIds(fnp.ret)
          /\ fnp.collected[j][5] \in RetIds(fnp.ret)

\* ------------------------------------------------ properties: the agent tool
\* The record of thread t holds the full list the resolver returned, keeps
\* every other key it had, and the other threads' files are as they were.
PlacesStored(t) ==
    /\ t \in ThreadIds
    /\ tool.files[t].kind = "json"
    /\ "places" \in DOMAIN tool.files[t].data
    /\ tool.files[t].data["places"] = tool.places
    /\ tool.before[t].kind = "json" =>
           \A k \in DOMAIN tool.before[t].data \ {"places"} :
               k \in DOMAIN tool.files[t].data
               /\ tool.files[t].data[k] = tool.before[t].data[k]
    /\ \A u \in ThreadIds \ {t} : tool.files[u] = tool.before[u]

\* C22 as stated: whenever the tool has run with a thread_id in its
\* dependencies, the thread's record holds the resolver's full list under
\* 'places', its other keys are unchanged and no other thread's record is
\* touched.
C22_PlacesPersisted ==
    (tool.pc = "returned" /\ tool.thread_id # None) => PlacesStored(tool.thread_id[1])

\* C22 amended: the above holds when the thread_id is not empty and the write
\* of the file succeeds; when the write cannot open the file, or the
\* thread_id is missing or empty, or the tool raises, every file is as it
\* was; a write that fails midway changes no file but the thread's own; and
\* the tool returns name and distance of the first max(1, top_k) places.
C22_PlacesPersistedWhenWritten ==
    /\ (tool.pc = "returned" /\ HasThread(tool.thread_id) /\ tool.write = "ok")
           => PlacesStored(tool.thread_id[1])
    /\ (tool.pc = "returned" /\ HasThread(tool.thread_id))
           => \A u \in ThreadIds \ {tool.thread_id[1]} : tool.files[u] = tool.before[u]
    /\ (tool.pc = "raised"
         \/ (tool.pc = "returned" /\ ~HasThread(tool.thread_id))
         \/ (tool.pc = "returned" /\ tool.write = "open_fails"))
           => tool.files = tool.before
    /\ tool.pc = "returned" =>
           /\ Len(tool.ret) = IF Len(tool.places) < MaxOf({1, tool.top_k})
                               THEN Len(tool.places) ELSE MaxOf({1, tool.top_k})
           /\ \A i \in 1..Len(tool.ret) :
                   /\ DOMAIN tool.ret[i] = {"name", "distance_m"}
                   /\ tool.ret[i].name = tool.places[i].name
                   /\ tool.ret[i].distance_m = tool.places[i].distance_m

\* The tool stored more places than it returned into a record that had
\* another key, while the other thread had a record too.
C22_Witness ==
    /\ tool.pc = "returned" /\ tool.thread_id = <<"t1">> /\ tool.write = "ok"
    /\ tool.before["t1"].kind = "json" /\ "places" \in DOMAIN tool.before["t1"].data
    /\ tool.before["t2"].kind = "json"
    /\ Len(tool.places) > Len(tool.ret)
    /\ tool.files["t1"].data["places"] = tool.places
    /\ tool.files["t1"].data["lat"] = 1

C30_RecomputeAllIsFresh ==
    (ana.op.name = "compute_all" /\ ana.op.recompute) =>
        \A t \in DOMAIN ana.all[1].threads :
            /\ ana.analysed[t] > ana.prev.analysed[t]
            /\ ana.written[t] > ana.prev.written[t]
            /\ ana.all[1].threads[t].updated_at > ana.prev.clock
            /\ ana.store[t] = Json(ana.all[1].threads[t])

\* --------------------------------------------------- properties: the chats
\* The messages of the chats on thread tid that returned, in their order.
RECURSIVE Exchanges(_, _)
Exchanges(done, tid) ==
    IF done = <<>> THEN <<>>
    ELSE LET i == done[Len(done)]
             front == Exchanges(SubSeq(done, 1, Len(done) - 1), tid)
         IN  IF chat.calls[i].thread_id = tid
             THEN front \o <<UserMessage(Query(i)), AssistantMessage(Reply(i))>>
             ELSE front

\* C24: a thread whose chats ran one after another holds, for its n chats
\* that returned, the 2n messages query 1, reply 1, ..., query n, reply n,
\* and has no file when n = 0; a chat that raises, in the retrieval or in the
\* agent's run, leaves every stored thread as it was; a chat that returns
\* changes its own thread only; a chat without thread_id gets an id that no
\* caller passes and no other chat has, and starts from an empty thread.
C24_ThreadIsItsExchanges ==
    /\ \A tid \in ChatThreads \ chat.raced :
           LET h == Exchanges(chat.done, tid)
           IN  chat.store[tid] = IF h = <<>> THEN Absent ELSE Json(h)
    /\ chat.op.name \in {"begin", "raise"} => chat.store = chat.before
    /\ chat.op.name = "return" =>
           \A t \in ChatThreads \ {chat.calls[chat.op.i].thread_id} :
               chat.store[t] = chat.before[t]
    /\ \A i \in 1..chat.started :
           chat.calls[i].fresh =>
               /\ chat.calls[i].thread_id \notin GivenThreads
               /\ \A j \in 1..chat.started \ {i} :
                       chat.calls[j].thread_id # chat.calls[i].thread_id
               /\ chat.calls[i].pc = "returned" =>
                       chat.calls[i].messages
                           = <<UserMessage(Query(i)), AssistantMessage(Reply(i))>>

\* Three chats on thread 1, one after another: the second raised, and the
\* thread holds the four messages of the first and the third.
C24_Witness ==
    /\ chat.done = <<1, 3>>
    /\ chat.calls[2].pc = "raised"
    /\ \A i \in 1..3 : chat.calls[i].thread_id = 1 /\ chat.calls[i].beside = {}
    /\ chat.store[1] = Json(<<UserMessage(Query(1)), AssistantMessage(Reply(1)),
                              UserMessage(Query(3)), AssistantMessage(Reply(3))>>)

\* C25 as stated: when two chats on one thread have both returned and the
\* later one loaded the thread while the earlier was under way, the stored
\* thread holds the query and the reply of both.
C25_NoExchangeLost ==
    \A i, j \in 1..MaxChats :
        (/\ chat.calls[i].pc = "returned" /\ chat.calls[j].pc = "returned"
         /\ i \in chat.calls[j].beside)
        => \A k \in {i, j} :
               {UserMessage(Query(k)), AssistantMessage(Reply(k))}
                   \subseteq Range(load_thread(chat.store, chat.calls[j].thread_id))

====
